---- MODULE Spec2Model ----
(***************************************************************************)
(* School timetabling engine (bricks-in-the-wall).                         *)
(*                                                                         *)
(* Scheduler (src/src/scheduler.py) builds a 0/1 model over                *)
(* (teacher, class, room, time slot) keys, constraints.py adds four        *)
(* families of linear constraints, objectives.py builds the objective,     *)
(* Scheduler.solve reads the backend status and extracts the solution,     *)
(* Scheduler.get_schedule projects it, and run_scheduler                   *)
(* (src/src/scheduler_utils.py) drives the sequence and maps every failure *)
(* to None.                                                                *)
(*                                                                         *)
(* A decision variable is the record [gen, key]: gen counts the calls of   *)
(* create_variables, since each call makes new solver variables and        *)
(* overwrites the entries of Scheduler.x, while the solver keeps the       *)
(* variables and constraints of earlier builds.                            *)
(*                                                                         *)
(* Specifications: Spec (run_scheduler and get_schedule called in turn on  *)
(* one Scheduler), SpecGaps (the linking constraints of                    *)
(* minimize_teacher_gaps), SpecPage (the Solve page: run_with_timeout and  *)
(* its worker threads on the session's Scheduler), SpecProject             *)
(* (get_schedule on stored solutions with known and unknown ids).          *)
(***************************************************************************)
EXTENDS Integers, Sequences, FiniteSets, Bags, TLC

(***************************************************************************)
(* Program constants.                                                      *)
(***************************************************************************)
GridDays == 5
GridPeriods == 8
ScheduleDays == 5
GapPeriods == 8
AnalysisPeriods == 8

(***************************************************************************)
(* Bounds of the model.                                                    *)
(***************************************************************************)
MaxAttempts == 2
MaxPeriodsPerWeek == 2
MaxCapacity == 3
MaxStored == 2
MaxMissing == 1
MaxInputLen == 4
MaxParseDays == 2
MaxParsePeriods == 2

VARIABLES
    data,            \* Scheduler.data: teachers, classes, rooms, time_slots
    x,               \* Scheduler.x: key -> decision variable
    gen,             \* number of create_variables calls so far
    numVariables,    \* solver.NumVariables()
    solverCons,      \* constraints held by Scheduler.solver
    numConstraints,  \* solver.NumConstraints()
    objective,       \* "none" or "set": solver.Minimize has been called
    solution,        \* Scheduler.solution: {} is None, {s} is the dict with keys s
    status,          \* status of the last solver.Solve() of this attempt
    solveRet,        \* return value of the last Scheduler.solve
    logged,          \* last message Scheduler.solve wrote to the log
    weights,         \* keys of the weight map of the running attempt
    pc,              \* position of run_scheduler
    raised,          \* exception run_scheduler caught in this attempt
    result,          \* return of run_scheduler: {} is None, {sch} a schedule
    attempts,        \* number of run_scheduler calls so far
    everSolved,      \* some solve on this Scheduler has ended OPTIMAL or FEASIBLE
    gapObjective,    \* value of total_gaps in the last solved model
    gs_raised,       \* what the caller's last own get_schedule() call raised
    parked,          \* locals of the worker threads that are not the running one
    thread,          \* number of the worker thread whose locals are pc .. result
    pagePc,          \* Solve page: "ready", or "joining" inside run_with_timeout
    pageOutcome,     \* how the last run_with_timeout of the page ended
    page_schedule,   \* the page's local schedule: what run_with_timeout returned
    session_schedule, \* st.session_state.schedule: {} is None
    session_solve_time, \* st.session_state.solve_time: "unset" or "measured"
    avail_input,     \* parse_availability: the string, as rows of tokens
    avail_grid,      \* parse_availability: the grid returned, {} before the call
    teaching_periods, \* minimize_teacher_gaps: 0/1 value of each period's sum
    gap_p,           \* minimize_teacher_gaps: next interior period
    gap_values       \* values the linking constraints admit for gap[p]

vars == <<data, x, gen, numVariables, solverCons, numConstraints, objective,
          solution, status, solveRet, logged, weights, pc, raised, result,
          attempts, everSolved, gapObjective, gs_raised, parked, thread,
          pagePc, pageOutcome, page_schedule, session_schedule,
          session_solve_time, avail_input, avail_grid,
          teaching_periods, gap_p, gap_values>>

schedVars == <<data, x, gen, numVariables, solverCons, numConstraints,
               objective, solution, status, solveRet, logged, weights, pc,
               raised, result, attempts, everSolved, gapObjective, gs_raised>>

pageVars == <<parked, thread, pagePc, pageOutcome, page_schedule,
              session_schedule, session_solve_time>>

parseVars == <<avail_input, avail_grid>>

gapVars == <<teaching_periods, gap_p, gap_values>>

(***************************************************************************)
(* Entity data (src/src/data_loader.py).                                   *)
(***************************************************************************)

\* parse_availability with num_days=5, num_periods=8: a 5 x 8 grid of
\* booleans; unavail is the set of 0-based (day, period) cells that are False.
Grid(unavail) ==
    [d \in 1..GridDays |-> [p \in 1..GridPeriods |-> <<d - 1, p - 1>> \notin unavail]]

Teacher(id, name, subjects, unavail) ==
    [ID |-> id, Name |-> name, Subjects |-> subjects, Availability |-> Grid(unavail)]

Class(id, subject, students, periods) ==
    [ID |-> id, Subject |-> subject, NumStudents |-> students, PeriodsPerWeek |-> periods]

Room(id, capacity) == [ID |-> id, Capacity |-> capacity]

\* load_time_slots accepts any (Day, Period) integers: two slots inside the
\* 5 x 8 grid, a slot on a sixth day, a slot in a ninth period.
SlotSets ==
    { {<<0, 0>>, <<0, 1>>},
      {<<0, 0>>, <<5, 0>>},
      {<<0, 0>>, <<0, 8>>} }

\* three consecutive periods of one day
GapSlots == {<<0, 0>>, <<0, 1>>, <<0, 2>>}

InGrid(slots) == {ts \in slots : ts[1] < GridDays /\ ts[2] < GridPeriods}

TeacherSets(slots) ==
    {{Teacher("T1", "Ann", {"Math"}, u1)} : u1 \in SUBSET InGrid(slots)}
    \cup {{Teacher("T1", "Ann", {"Math"}, u1), Teacher("T2", "Bob", {"Art"}, u2)} :
            u1 \in SUBSET InGrid(slots), u2 \in {{}, InGrid(slots)}}

\* load_classes takes int(row["PeriodsPerWeek"]) as it comes, 0 included
ClassSets ==
    {{Class("C1", "Math", 1, p1)} : p1 \in 0..MaxPeriodsPerWeek}
    \cup {{Class("C1", "Math", 1, p1), Class("C2", "Art", 2, p2)} :
            p1 \in 1..MaxPeriodsPerWeek, p2 \in 1..MaxPeriodsPerWeek}

RoomSets == {{Room("R1", cap)} : cap \in 1..MaxCapacity}

\* load_all_data: the four collections, none empty (validate_data)
DataSets ==
    UNION {[teachers : TeacherSets(slots), classes : ClassSets,
            rooms : RoomSets, time_slots : {slots}] : slots \in SlotSets}
    \cup [teachers : {{Teacher("T1", "Ann", {"Math"}, {})}}, classes : ClassSets,
          rooms : RoomSets, time_slots : {GapSlots}]

\* weight maps passed by the callers: run_scheduler.py and the Solve page
\* pass {gaps}, scheduler.main passes all three keys
WeightMaps == {{"gaps"}, {"gaps", "workload", "distribution"}}

(***************************************************************************)
(* Helpers.                                                                *)
(***************************************************************************)
RECURSIVE SumOver(_, _)
SumOver(f, S) ==
    IF S = {} THEN 0
    ELSE LET e == CHOOSE e \in S : TRUE IN f[e] + SumOver(f, S \ {e})

\* the loops of create_variables with one more room than the data has
keys_with_spare_room(d) ==
    {<<t.ID, c.ID, rid, ts>> :
        t \in d.teachers, c \in d.classes,
        rid \in {r.ID : r \in d.rooms} \cup {"spare"}, ts \in d.time_slots}

\* the keys of the four nested loops of create_variables (lines 52-56)
Keys(d) ==
    {<<t.ID, c.ID, r.ID, ts>> :
        t \in d.teachers, c \in d.classes, r \in d.rooms, ts \in d.time_slots}

Var(g, key) == [gen |-> g, key |-> key]

(***************************************************************************)
(* Constraint Builder (src/src/constraints.py).  A constraint is           *)
(* solver.Constraint(lb, ub) with the coefficients SetCoefficient gave it: *)
(* coef maps each variable of the constraint to its coefficient.           *)
(***************************************************************************)
Constraint(lb, ub, coef) == [lb |-> lb, ub |-> ub, coef |-> coef]

ClassOf(classes, v) == CHOOSE c \in classes : c.ID = v.key[2]

\* room_capacity_constraint with every coefficient 1 instead of NumStudents
room_capacity_unweighted(xx, classes, rooms, time_slots, teachers) ==
    {Constraint(0, r.Capacity,
        [v \in {xx[<<t.ID, c.ID, r.ID, ts>>] : t \in teachers, c \in classes}
            |-> 1]) :
        r \in rooms, ts \in time_slots}

\* for r in rooms, ts in time_slots: Constraint(0, r.Capacity),
\* coefficient c.NumStudents on x[t, c, r, ts] for every class and teacher
room_capacity_constraint(xx, classes, rooms, time_slots, teachers) ==
    {Constraint(0, r.Capacity,
        [v \in {xx[<<t.ID, c.ID, r.ID, ts>>] : t \in teachers, c \in classes}
            |-> ClassOf(classes, v).NumStudents]) :
        r \in rooms, ts \in time_slots}

\* line 70: the grid has no cell for (day, period)
AvailabilityMissing(t, ts) ==
    \/ ts[1] >= Len(t.Availability)
    \/ ts[2] >= Len(t.Availability[ts[1] + 1])

\* teacher_availability_constraint with the test of line 74 inverted: the
\* slots where the teacher is available are the ones constrained to 0
teacher_availability_inverted(xx, teachers, classes, rooms, time_slots) ==
    {Constraint(0, 0,
        [v \in {xx[<<tts[1].ID, c.ID, r.ID, tts[2]>>] : c \in classes, r \in rooms}
            |-> 1]) :
        tts \in {p \in teachers \X time_slots :
                    /\ ~AvailabilityMissing(p[1], p[2])
                    /\ p[1].Availability[p[2][1] + 1][p[2][2] + 1]}}

\* for t in teachers, ts in time_slots: skipped (continue) when the grid has
\* no cell; Constraint(0, 0) over the teacher's variables at ts when the
\* cell is False; nothing when the cell is True
teacher_availability_constraint(xx, teachers, classes, rooms, time_slots) ==
    {Constraint(0, 0,
        [v \in {xx[<<tts[1].ID, c.ID, r.ID, tts[2]>>] : c \in classes, r \in rooms}
            |-> 1]) :
        tts \in {p \in teachers \X time_slots :
                    /\ ~AvailabilityMissing(p[1], p[2])
                    /\ ~p[1].Availability[p[2][1] + 1][p[2][2] + 1]}}

\* one_class_per_teacher_per_period with upper bound 2
two_classes_per_teacher_per_period(xx, teachers, classes, rooms, time_slots) ==
    {Constraint(0, 2,
        [v \in {xx[<<t.ID, c.ID, r.ID, ts>>] : c \in classes, r \in rooms} |-> 1]) :
        t \in teachers, ts \in time_slots}

\* for t in teachers, ts in time_slots: Constraint(0, 1) over the teacher's
\* variables at ts
one_class_per_teacher_per_period(xx, teachers, classes, rooms, time_slots) ==
    {Constraint(0, 1,
        [v \in {xx[<<t.ID, c.ID, r.ID, ts>>] : c \in classes, r \in rooms} |-> 1]) :
        t \in teachers, ts \in time_slots}

\* required_periods_per_class with lower bound 0: at most PeriodsPerWeek
at_most_periods_per_class(xx, classes, teachers, rooms, time_slots) ==
    {Constraint(0, c.PeriodsPerWeek,
        [v \in {xx[<<t.ID, c.ID, r.ID, ts>>] :
                    t \in teachers, r \in rooms, ts \in time_slots} |-> 1]) :
        c \in classes}

\* for c in classes: Constraint(PeriodsPerWeek, PeriodsPerWeek) over all of
\* the class's variables
required_periods_per_class(xx, classes, teachers, rooms, time_slots) ==
    {Constraint(c.PeriodsPerWeek, c.PeriodsPerWeek,
        [v \in {xx[<<t.ID, c.ID, r.ID, ts>>] :
                    t \in teachers, r \in rooms, ts \in time_slots} |-> 1]) :
        c \in classes}

\* the keys the constraint families look up that the map xx lacks
MissingKeys(xx, teachers, classes, rooms, time_slots) ==
    {<<t.ID, c.ID, r.ID, ts>> :
        t \in teachers, c \in classes, r \in rooms, ts \in time_slots}
        \ DOMAIN xx

\* line 39: x.get(key, 0) hands the int 0 to SetCoefficient in place of a
\* variable, which the binding rejects
room_capacity_raises(xx, classes, rooms, time_slots, teachers) ==
    IF MissingKeys(xx, teachers, classes, rooms, time_slots) # {}
    THEN "TypeError" ELSE "none"

\* line 78: x.get(key, 0) again, for the slots of line 74 only
teacher_availability_raises(xx, teachers, classes, rooms, time_slots) ==
    IF \E t \in teachers : \E ts \in time_slots :
          /\ ~AvailabilityMissing(t, ts)
          /\ ~t.Availability[ts[1] + 1][ts[2] + 1]
          /\ MissingKeys(xx, {t}, classes, rooms, {ts}) # {}
    THEN "TypeError" ELSE "none"

\* line 112: x[key]
one_class_per_teacher_raises(xx, teachers, classes, rooms, time_slots) ==
    IF MissingKeys(xx, teachers, classes, rooms, time_slots) # {}
    THEN "KeyError" ELSE "none"

\* line 146: x[key]
required_periods_raises(xx, classes, teachers, rooms, time_slots) ==
    IF MissingKeys(xx, teachers, classes, rooms, time_slots) # {}
    THEN "KeyError" ELSE "none"

\* the exception of the first family that raises, in the order of lines
\* 174-177
apply_all_constraints_raises(xx, teachers, classes, rooms, time_slots) ==
    LET rc == room_capacity_raises(xx, classes, rooms, time_slots, teachers)
        ta == teacher_availability_raises(xx, teachers, classes, rooms, time_slots)
        oc == one_class_per_teacher_raises(xx, teachers, classes, rooms, time_slots)
        rp == required_periods_raises(xx, classes, teachers, rooms, time_slots)
    IN  IF rc # "none" THEN rc
        ELSE IF ta # "none" THEN ta
        ELSE IF oc # "none" THEN oc
        ELSE rp

apply_all_constraints(xx, teachers, classes, rooms, time_slots) ==
    room_capacity_constraint(xx, classes, rooms, time_slots, teachers)
    \cup teacher_availability_constraint(xx, teachers, classes, rooms, time_slots)
    \cup one_class_per_teacher_per_period(xx, teachers, classes, rooms, time_slots)
    \cup required_periods_per_class(xx, classes, teachers, rooms, time_slots)

(***************************************************************************)
(* The MILP backend (ortools pywraplp, CBC).  An assignment is the set of  *)
(* variables with value 1.  Constraints never span two builds, so the      *)
(* model is feasible exactly when the constraints of every build are       *)
(* satisfiable over that build's variables.                                *)
(***************************************************************************)
Satisfies(a, con) ==
    LET value == SumOver(con.coef, a \cap DOMAIN con.coef)
    IN  con.lb <= value /\ value <= con.ub

ConsOfGen(cons, g) == {con \in cons : \E v \in DOMAIN con.coef : v.gen = g}

FeasibleAssignments(keys, cons, g) ==
    {a \in SUBSET {Var(g, k) : k \in keys} :
        \A con \in ConsOfGen(cons, g) : Satisfies(a, con)}

ModelFeasible(keys, cons, g) ==
    \A h \in 1..g : FeasibleAssignments(keys, cons, h) # {}

\* MPSolver::ResultStatus; NOT_SOLVED is the time limit reached with no
\* incumbent, "EXCEPTION" stands for Solve() raising
FailureStatuses == {"INFEASIBLE", "UNBOUNDED", "ABNORMAL", "NOT_SOLVED", "EXCEPTION"}
SolvedStatuses == {"OPTIMAL", "FEASIBLE"}

(***************************************************************************)
(* Objective Composer (src/src/objectives.py).                             *)
(***************************************************************************)

\* combined_objective reads weights['gaps'], weights['workload'] and
\* weights['distribution'] (lines 245-252): a missing key raises KeyError,
\* which set_objective logs and re-raises
combined_objective(w) ==
    IF {"gaps", "workload", "distribution"} \subseteq w THEN "ok" ELSE "KeyError"

\* the four linking constraints of lines 66-69 for interior period p, with
\* tp[q] the value of teaching_periods[q]
LinkingConstraints(tp, p, gap) ==
    /\ gap >= tp[p - 1] + tp[p + 1] - 1
    /\ gap <= 1 - tp[p]
    /\ gap <= tp[p - 1]
    /\ gap <= tp[p + 1]

\* gap = solver.IntVar(0, 1, ...): the values the constraints leave to it
AdmittedGaps(tp, p) == {gap \in 0..1 : LinkingConstraints(tp, p, gap)}

\* The value of total_gaps, the sum of the gap[p] variables, in a solve of
\* Scheduler.solver that reports the assignment a (the variables with value
\* 1). minimize_teacher_gaps creates total_gaps and every gap[p] in a solver
\* of its own (line 39) and combined_objective returns a variable of yet
\* another one (line 222): the model that is solved holds the decision
\* variables of x and nothing else, so a gap variable with value 1 would be a
\* member of a that is no decision variable.
total_gaps(xx, a) == Cardinality({v \in a : v \notin {xx[k] : k \in DOMAIN xx}})

(***************************************************************************)
(* Schedule Projector (Scheduler.get_schedule).                            *)
(***************************************************************************)
TeacherById(d, id) == CHOOSE t \in d.teachers : t.ID = id
ClassById(d, id) == CHOOSE c \in d.classes : c.ID = id
RoomById(d, id) == CHOOSE r \in d.rooms : r.ID = id

\* the entry of line 167 with the ids of the key in place of the looked-up
\* Name and Subject
entry_of_ids(d, k) ==
    [period |-> k[4][2], teacher |-> k[1], class |-> k[2], room |-> k[3]]

\* lines 161-172: the entry appended for solution key k
Entry(d, k) ==
    [period |-> k[4][2],
     teacher |-> TeacherById(d, k[1]).Name,
     class |-> ClassById(d, k[2]).Subject,
     room |-> RoomById(d, k[3]).ID]

\* the list of one day, as the bag of its entries
DayEntries(d, keys, day) ==
    LET ks == {k \in keys : k[4][1] = day}
        es == {Entry(d, k) : k \in ks}
    IN  [e \in es |-> Cardinality({k \in ks : Entry(d, k) = e})]

\* the three next(...) lookups of lines 162-164 find an entity for key k
KnownIds(d, k) ==
    /\ k[1] \in {t.ID : t \in d.teachers}
    /\ k[2] \in {c.ID : c \in d.classes}
    /\ k[3] \in {r.ID : r \in d.rooms}

\* get_schedule with dictionary lookups in place of next(...)
get_schedule_raises_key_error(sol, d) ==
    IF sol = {} \/ sol = {{}} THEN "ValueError"
    ELSE IF \E s \in sol : \E k \in s : ~KnownIds(d, k)
         THEN "KeyError"
         ELSE IF \E s \in sol : \E k \in s : k[4][1] \notin 0..(ScheduleDays - 1)
              THEN "KeyError"
              ELSE "none"

\* "ValueError" when self.solution is None or empty (line 157);
\* "StopIteration" when next(...) finds no entity with a key's id (lines
\* 162-164, before the append of that key); "KeyError" when a key's day is
\* not one of range(5) (lines 160, 167); else "none"
get_schedule_raises(sol, d) ==
    IF sol = {} \/ sol = {{}} THEN "ValueError"
    ELSE IF \E s \in sol : \E k \in s : ~KnownIds(d, k)
         THEN "StopIteration"
         ELSE IF \E s \in sol : \E k \in s : k[4][1] \notin 0..(ScheduleDays - 1)
              THEN "KeyError"
              ELSE "none"

get_schedule(sol, d) ==
    LET s == CHOOSE s \in sol : TRUE
    IN  [day \in 0..(ScheduleDays - 1) |-> DayEntries(d, s, day)]

(***************************************************************************)
(* Gap analysis of a projected schedule (utils.analyze_gaps).              *)
(***************************************************************************)

\* day_schedule[class_['teacher']][class_['period']] = 1 (line 242): the
\* periods at which the teacher called name has an entry on that day
TaughtPeriods(sch, day, name) ==
    {e.period : e \in {f \in DOMAIN sch[day] : f.teacher = name}}

\* the per-teacher list is [0] * 8: a period beyond it raises IndexError
analyze_gaps_raises(sch, teachers) ==
    IF \E day \in DOMAIN sch : \E e \in DOMAIN sch[day] :
            e.period \notin 0..(AnalysisPeriods - 1)
    THEN "IndexError"
    ELSE "none"

\* gaps[Name]: over all days, the interior periods i of range(1, 7) with
\* periods[i] == 0, periods[i-1] == 1 and periods[i+1] == 1 (line 244)
analyze_gaps(sch, teachers) ==
    [name \in {t.Name : t \in teachers} |->
        Cardinality({di \in (DOMAIN sch) \X (1..(AnalysisPeriods - 2)) :
            /\ di[2] \notin TaughtPeriods(sch, di[1], name)
            /\ (di[2] - 1) \in TaughtPeriods(sch, di[1], name)
            /\ (di[2] + 1) \in TaughtPeriods(sch, di[1], name)})]

(***************************************************************************)
(* Solve Controller (Scheduler.solve).                                     *)
(***************************************************************************)

\* solve with the INFEASIBLE branch returning True
solve_returns_infeasible_true(st) ==
    IF st = "OPTIMAL" THEN TRUE
    ELSE IF st = "FEASIBLE" THEN TRUE
    ELSE IF st = "INFEASIBLE" THEN TRUE
    ELSE FALSE

\* the if/elif chain of lines 125-143 and the handler of lines 145-148
solve_returns(st) ==
    IF st = "OPTIMAL" THEN TRUE
    ELSE IF st = "FEASIBLE" THEN TRUE
    ELSE FALSE

\* the message solve logs for a status; the last branch formats the status
\* into the message
solve_logs(st) ==
    CASE st = "OPTIMAL" -> <<"Optimal solution found", "">>
      [] st = "FEASIBLE" -> <<"Feasible solution found", "">>
      [] st = "INFEASIBLE" -> <<"Problem is infeasible", "">>
      [] st = "UNBOUNDED" -> <<"Problem is unbounded", "">>
      [] st = "EXCEPTION" -> <<"An error occurred during solving", "str(e)">>
      [] OTHER -> <<"Solving process stopped with status", st>>

\* self.solution = {key: value for key, var in self.x.items() if value > 0.5}
extract_solution(xx, a) == {k \in DOMAIN xx : xx[k] \in a}

(***************************************************************************)
(* run_scheduler's handler (src/src/scheduler_utils.py lines 31-34).       *)
(***************************************************************************)

\* the exceptions the modelled steps raise; each is a subclass of Exception
ExceptionClasses == {"KeyError", "ValueError", "StopIteration", "TypeError"}

\* a handler "except ValueError" in place of "except Exception"
caught_value_error_only(exc) == exc = "ValueError"

\* "except Exception as e" catches every subclass of Exception
caught_by_run_scheduler(exc) == exc \in ExceptionClasses

(***************************************************************************)
(* State machine.                                                          *)
(***************************************************************************)
Init ==
    /\ data \in DataSets
    /\ x = <<>>
    /\ gen = 0
    /\ numVariables = 0
    /\ solverCons = {}
    /\ numConstraints = 0
    /\ objective = "none"
    /\ solution = {}
    /\ status = "NONE"
    /\ solveRet = FALSE
    /\ logged = <<"none", "">>
    /\ weights = {}
    /\ pc = "idle"
    /\ raised = "none"
    /\ result = {}
    /\ attempts = 0
    /\ everSolved = FALSE
    /\ gapObjective = 0
    /\ gs_raised = "not_called"
    /\ parked = {}
    /\ thread = 0
    /\ pagePc = "ready"
    /\ pageOutcome = "none"
    /\ page_schedule = {}
    /\ session_schedule = {}
    /\ session_solve_time = "unset"
    /\ avail_input = {}
    /\ avail_grid = {}
    /\ teaching_periods = [p \in 0..(GapPeriods - 1) |-> 0]
    /\ gap_p = 0
    /\ gap_values = <<>>

\* a caller invokes run_scheduler(scheduler, weights, timeout)
run_scheduler(w) ==
    /\ pc = "idle"
    /\ attempts < MaxAttempts
    /\ attempts' = attempts + 1
    /\ weights' = w
    /\ status' = "NONE"
    /\ solveRet' = FALSE
    /\ logged' = <<"none", "">>
    /\ raised' = "none"
    /\ result' = {}
    /\ pc' = "create_variables"
    /\ gs_raised' = "not_called"
    /\ UNCHANGED <<data, x, gen, numVariables, solverCons, numConstraints,
                   objective, solution, everSolved, gapObjective>>

\* Scheduler.create_variables: a new IntVar(0, 1) for every key
create_variables ==
    /\ pc = "create_variables"
    /\ gen' = gen + 1
    /\ x' = [k \in DOMAIN x \cup Keys(data) |->
                IF k \in Keys(data) THEN Var(gen + 1, k) ELSE x[k]]
    /\ numVariables' = numVariables + Cardinality(Keys(data))
    /\ pc' = "apply_constraints"
    /\ UNCHANGED <<data, solverCons, numConstraints, objective, solution,
                   status, solveRet, logged, weights, raised, result, attempts,
                   everSolved, gapObjective, gs_raised>>

\* Scheduler.apply_constraints
apply_constraints ==
    /\ pc = "apply_constraints"
    /\ LET exc == apply_all_constraints_raises(x, data.teachers, data.classes,
                                               data.rooms, data.time_slots)
           new == apply_all_constraints(x, data.teachers, data.classes,
                                        data.rooms, data.time_slots)
       IN  IF exc = "none"
           THEN /\ solverCons' = solverCons \cup new
                /\ numConstraints' = numConstraints + Cardinality(new)
                /\ pc' = "set_objective"
                /\ UNCHANGED <<raised, result>>
           ELSE /\ raised' = exc
                /\ IF caught_by_run_scheduler(exc)
                   THEN result' = {} /\ pc' = "idle"
                   ELSE pc' = "propagated" /\ UNCHANGED result
                /\ UNCHANGED <<solverCons, numConstraints>>
    /\ UNCHANGED <<data, x, gen, numVariables, objective, solution, status,
                   solveRet, logged, weights, attempts,
                   everSolved, gapObjective, gs_raised>>

\* Scheduler.set_objective: combined_objective, then solver.Minimize; an
\* exception is re-raised to run_scheduler, whose handler returns None when
\* it catches it
set_objective ==
    /\ pc = "set_objective"
    /\ IF combined_objective(weights) = "ok"
       THEN /\ objective' = "set"
            /\ pc' = "solve"
            /\ UNCHANGED <<raised, result>>
       ELSE /\ raised' = combined_objective(weights)
            /\ IF caught_by_run_scheduler(combined_objective(weights))
               THEN result' = {} /\ pc' = "idle"
               ELSE pc' = "propagated" /\ UNCHANGED result
            /\ UNCHANGED objective
    /\ UNCHANGED <<data, x, gen, numVariables, solverCons, numConstraints,
                   solution, status, solveRet, logged, weights, attempts,
                   everSolved, gapObjective, gs_raised>>

\* combined_objective formats the variables returned by minimize_teacher_gaps,
\* balance_workload and optimize_class_distribution (lines 227, 232, 237)
\* after the solvers that own them have gone out of scope: a read of freed
\* memory, which either goes unnoticed (set_objective above) or ends the
\* process
set_objective_crash ==
    /\ pc = "set_objective"
    /\ pc' = "crashed"
    /\ UNCHANGED <<data, x, gen, numVariables, solverCons, numConstraints,
                   objective, solution, status, solveRet, logged, weights,
                   raised, result, attempts, everSolved, gapObjective,
                   gs_raised>>

\* Scheduler.solve with self.solution reset to None when no solution is
\* found
solve_clearing_solution ==
    /\ pc = "solve"
    /\ LET feasible == ModelFeasible(DOMAIN x, solverCons, gen)
       IN \E st \in SolvedStatuses \cup FailureStatuses :
            /\ st \in SolvedStatuses => feasible
            /\ st = "INFEASIBLE" => ~feasible
            /\ status' = st
            /\ solveRet' = solve_returns(st)
            /\ logged' = solve_logs(st)
            /\ IF st \in SolvedStatuses
               THEN \E a \in FeasibleAssignments(DOMAIN x, solverCons, gen) :
                        /\ solution' = {extract_solution(x, a)}
                        /\ gapObjective' = total_gaps(x, a)
                        /\ everSolved' = TRUE
               ELSE /\ solution' = {}
                    /\ UNCHANGED <<gapObjective, everSolved>>
            /\ IF solve_returns(st)
               THEN pc' = "get_schedule" /\ UNCHANGED result
               ELSE pc' = "idle" /\ result' = {}
    /\ UNCHANGED <<data, x, gen, numVariables, solverCons, numConstraints,
                   objective, weights, raised, attempts, gs_raised>>

\* Scheduler.solve: the backend reports a solved status only with an
\* assignment that satisfies every constraint, INFEASIBLE only when there is
\* none; the other statuses and an exception can end any solve
solve ==
    /\ pc = "solve"
    /\ LET feasible == ModelFeasible(DOMAIN x, solverCons, gen)
       IN \E st \in SolvedStatuses \cup FailureStatuses :
            /\ st \in SolvedStatuses => feasible
            /\ st = "INFEASIBLE" => ~feasible
            /\ status' = st
            /\ solveRet' = solve_returns(st)
            /\ logged' = solve_logs(st)
            /\ IF st \in SolvedStatuses
               THEN \E a \in FeasibleAssignments(DOMAIN x, solverCons, gen) :
                        /\ solution' = {extract_solution(x, a)}
                        /\ gapObjective' = total_gaps(x, a)
                        /\ everSolved' = TRUE
               ELSE UNCHANGED <<solution, gapObjective, everSolved>>
            /\ IF solve_returns(st)
               THEN pc' = "get_schedule" /\ UNCHANGED result
               ELSE pc' = "idle" /\ result' = {}
    /\ UNCHANGED <<data, x, gen, numVariables, solverCons, numConstraints,
                   objective, weights, raised, attempts, gs_raised>>

\* run_scheduler line 27: return scheduler.get_schedule(); an exception
\* that the handler of line 31 catches makes it return None
return_schedule ==
    /\ pc = "get_schedule"
    /\ IF get_schedule_raises(solution, data) = "none"
       THEN /\ result' = {get_schedule(solution, data)}
            /\ pc' = "idle"
            /\ UNCHANGED raised
       ELSE /\ raised' = get_schedule_raises(solution, data)
            /\ IF caught_by_run_scheduler(get_schedule_raises(solution, data))
               THEN result' = {} /\ pc' = "idle"
               ELSE pc' = "propagated" /\ UNCHANGED result
    /\ UNCHANGED <<data, x, gen, numVariables, solverCons, numConstraints,
                   objective, solution, status, solveRet, logged, weights,
                   attempts, everSolved, gapObjective, gs_raised>>

\* the caller invokes Scheduler.get_schedule() itself, between two
\* run_scheduler calls: the call changes nothing in the Scheduler, the caller
\* sees what it raises ("none" when it returns a schedule)
call_get_schedule ==
    /\ pc = "idle"
    /\ gs_raised' = get_schedule_raises(solution, data)
    /\ UNCHANGED <<data, x, gen, numVariables, solverCons, numConstraints,
                   objective, solution, status, solveRet, logged, weights, pc,
                   raised, result, attempts, everSolved, gapObjective>>

Next ==
    \/ (\E w \in WeightMaps : run_scheduler(w)) /\ UNCHANGED <<gapVars, pageVars, parseVars>>
    \/ create_variables /\ UNCHANGED <<gapVars, pageVars, parseVars>>
    \/ apply_constraints /\ UNCHANGED <<gapVars, pageVars, parseVars>>
    \/ set_objective /\ UNCHANGED <<gapVars, pageVars, parseVars>>
    \/ set_objective_crash /\ UNCHANGED <<gapVars, pageVars, parseVars>>
    \/ solve /\ UNCHANGED <<gapVars, pageVars, parseVars>>
    \/ return_schedule /\ UNCHANGED <<gapVars, pageVars, parseVars>>
    \/ call_get_schedule /\ UNCHANGED <<gapVars, pageVars, parseVars>>

Spec == Init /\ [][Next]_vars

(***************************************************************************)
(* Properties of the solution of a Solved attempt.                         *)
(***************************************************************************)
Solved == status \in SolvedStatuses

\* the keys of Scheduler.solution ({} while it is None)
SolutionKeys == UNION solution

AssignmentsOfClass(c) == {k \in SolutionKeys : k[2] = c.ID}

AssignmentsOfTeacherAt(t, ts) == {k \in SolutionKeys : k[1] = t.ID /\ k[4] = ts}

AssignmentsInRoomAt(r, ts) == {k \in SolutionKeys : k[3] = r.ID /\ k[4] = ts}

StudentsOf == [k \in Keys(data) |-> ClassById(data, k[2]).NumStudents]

\* C1: after a solve that ended OPTIMAL or FEASIBLE, the solution holds
\* exactly PeriodsPerWeek assignments of every class.
C1_RequiredPeriods ==
    Solved => \A c \in data.classes :
                Cardinality(AssignmentsOfClass(c)) = c.PeriodsPerWeek

C1_Witness ==
    /\ Solved
    /\ Cardinality(data.classes) = 2
    /\ \E c \in data.classes :
        c.PeriodsPerWeek = 2 /\ Cardinality(AssignmentsOfClass(c)) = 2

\* C2: in the solution of a Solved attempt no teacher has two assignments at
\* one time slot.
C2_OneClassPerTeacherPerPeriod ==
    Solved => \A t \in data.teachers : \A ts \in data.time_slots :
                Cardinality(AssignmentsOfTeacherAt(t, ts)) <= 1

C2_Witness ==
    /\ Solved
    /\ Cardinality(data.classes) = 2
    /\ \E t \in data.teachers :
        /\ \A ts \in data.time_slots : Cardinality(AssignmentsOfTeacherAt(t, ts)) = 1
        /\ {k[2] : k \in {q \in SolutionKeys : q[1] = t.ID}} = {"C1", "C2"}

\* C3: in the solution of a Solved attempt the students placed in a room at
\* a time slot never outnumber its capacity.
C3_RoomCapacity ==
    Solved => \A r \in data.rooms : \A ts \in data.time_slots :
                SumOver(StudentsOf, AssignmentsInRoomAt(r, ts)) <= r.Capacity

C3_Witness ==
    /\ Solved
    /\ \E r \in data.rooms : \E ts \in data.time_slots :
        /\ Cardinality(AssignmentsInRoomAt(r, ts)) = 2
        /\ SumOver(StudentsOf, AssignmentsInRoomAt(r, ts)) = r.Capacity

\* C4: in the solution of a Solved attempt no teacher is assigned at a slot
\* whose availability cell is False.
C4_TeacherAvailability ==
    Solved => \A k \in SolutionKeys :
                LET t == TeacherById(data, k[1])
                IN  ~AvailabilityMissing(t, k[4])
                        => t.Availability[k[4][1] + 1][k[4][2] + 1]

C4_Witness ==
    /\ Solved
    /\ \E t \in data.teachers :
        /\ \E ts \in data.time_slots :
            /\ ~AvailabilityMissing(t, ts)
            /\ ~t.Availability[ts[1] + 1][ts[2] + 1]
        /\ \E k \in SolutionKeys : k[1] = t.ID

\* C5: a teacher is never assigned at a slot for which the availability
\* grid has no cell (missing data counts as unavailable).
C5_MissingIsUnavailable ==
    Solved => \A k \in SolutionKeys :
                ~AvailabilityMissing(TeacherById(data, k[1]), k[4])

(***************************************************************************)
(* Properties of run_scheduler's result.                                   *)
(***************************************************************************)

\* run_scheduler has returned
Returned == pc = "idle" /\ attempts > 0

\* the backend itself gave up: time limit, abnormal end, unbounded, exception
BackendFailed == status \in {"UNBOUNDED", "ABNORMAL", "NOT_SOLVED", "EXCEPTION"}

\* the constraints of the loaded data have a satisfying assignment
InputFeasible ==
    FeasibleAssignments(Keys(data),
        apply_all_constraints([k \in Keys(data) |-> Var(1, k)], data.teachers,
                              data.classes, data.rooms, data.time_slots), 1) # {}

AlwaysAvailable(t) ==
    \A ts \in data.time_slots :
        /\ ~AvailabilityMissing(t, ts)
        /\ t.Availability[ts[1] + 1][ts[2] + 1]

\* one teacher available at every slot, one class that needs as many periods
\* as the bound allows, one room that holds the class, every slot in the grid
Scenario7 ==
    /\ Cardinality(data.teachers) = 1
    /\ \A t \in data.teachers : AlwaysAvailable(t)
    /\ Cardinality(data.classes) = 1
    /\ \A c \in data.classes :
        /\ c.PeriodsPerWeek = MaxPeriodsPerWeek
        /\ c.PeriodsPerWeek <= Cardinality(data.time_slots)
        /\ \A r \in data.rooms : r.Capacity >= c.NumStudents
    /\ Cardinality(data.rooms) = 1

\* C7: in the one-teacher, one-class, one-room scenario the build-and-solve
\* sequence ends Solved (unless the backend gives up) and the solution holds
\* exactly PeriodsPerWeek assignments of the class, at distinct slots.
C7_SingleClassScenario ==
    (Scenario7 /\ Returned /\ ~BackendFailed) =>
        /\ Solved
        /\ \A c \in data.classes :
            /\ Cardinality(AssignmentsOfClass(c)) = c.PeriodsPerWeek
            /\ Cardinality({k[4] : k \in AssignmentsOfClass(c)}) = c.PeriodsPerWeek

\* C8: called with the weight map {gaps} on a feasible input whose slots lie
\* in the five days of the schedule, run_scheduler returns a schedule.
C8_GapsOnlyWeights ==
    (/\ Returned
     /\ weights = {"gaps"}
     /\ InputFeasible
     /\ \A ts \in data.time_slots : ts[1] < ScheduleDays
     /\ ~BackendFailed) => result # {}

\* C9: run_scheduler returns a schedule exactly when the status of the
\* attempt's solve is OPTIMAL or FEASIBLE.
C9_ScheduleIffSolved == Returned => (result # {} <=> Solved)

\* what the caller of solve and of run_scheduler sees after a solve that
\* ended with failure status st
ObservedAfter(st) == <<solve_returns(st), {}>>

InitGaps ==
    /\ data = CHOOSE d \in DataSets : TRUE
    /\ x = <<>>
    /\ gen = 0
    /\ numVariables = 0
    /\ solverCons = {}
    /\ numConstraints = 0
    /\ objective = "none"
    /\ solution = {}
    /\ status = "NONE"
    /\ solveRet = FALSE
    /\ logged = <<"none", "">>
    /\ weights = {}
    /\ pc = "idle"
    /\ raised = "none"
    /\ result = {}
    /\ attempts = 0
    /\ everSolved = FALSE
    /\ gapObjective = 0
    /\ gs_raised = "not_called"
    /\ parked = {}
    /\ thread = 0
    /\ pagePc = "ready"
    /\ pageOutcome = "none"
    /\ page_schedule = {}
    /\ session_schedule = {}
    /\ session_solve_time = "unset"
    /\ avail_input = {}
    /\ avail_grid = {}
    /\ teaching_periods \in [0..(GapPeriods - 1) -> 0..1]
    /\ gap_p = 1
    /\ gap_values = <<>>

\* one iteration of "for p in range(1, 7)" (lines 63-70)
minimize_teacher_gaps ==
    /\ gap_p <= GapPeriods - 2
    /\ gap_values' = [q \in DOMAIN gap_values \cup {gap_p} |->
                        IF q = gap_p THEN AdmittedGaps(teaching_periods, gap_p)
                        ELSE gap_values[q]]
    /\ gap_p' = gap_p + 1
    /\ UNCHANGED teaching_periods

NextGaps == minimize_teacher_gaps /\ UNCHANGED <<schedVars, pageVars, parseVars>>

SpecGaps == InitGaps /\ [][NextGaps]_vars

\* C6: for every interior period handled, the linking constraints admit
\* exactly one value for gap[p]: 1 when the teacher teaches at p-1 and p+1
\* and not at p, and 0 in every other combination.
C6_GapLinking ==
    \A p \in DOMAIN gap_values :
        gap_values[p] =
            {IF /\ teaching_periods[p - 1] = 1
                /\ teaching_periods[p + 1] = 1
                /\ teaching_periods[p] = 0
             THEN 1 ELSE 0}

(***************************************************************************)
(* Properties of Scheduler.get_schedule called by the caller itself.       *)
(***************************************************************************)

\* C11: a get_schedule() call raises ValueError exactly when no solve on
\* this Scheduler has ended OPTIMAL or FEASIBLE; once one has, the call does
\* not raise ValueError.
C11_ValueErrorIffNeverSolved ==
    gs_raised # "not_called" => (gs_raised = "ValueError" <=> ~everSolved)

(***************************************************************************)
(* Scenarios of the solve.                                                 *)
(***************************************************************************)

\* Scheduler.solve has run in this attempt
SolveEnded == status # "NONE"

\* every teacher's grid has a cell for every time slot, and it is False
AllUnavailable ==
    \A t \in data.teachers : \A ts \in data.time_slots :
        /\ ~AvailabilityMissing(t, ts)
        /\ ~t.Availability[ts[1] + 1][ts[2] + 1]

Scenario15 ==
    /\ Cardinality(data.teachers) = 1
    /\ Cardinality(data.rooms) = 1
    /\ Cardinality(data.classes) = 2
    /\ \A r \in data.rooms : \A c \in data.classes : r.Capacity >= c.NumStudents

\* the time slots at which the grid of teacher t says available
AvailableSlots(t) ==
    {ts \in data.time_slots :
        /\ ~AvailabilityMissing(t, ts)
        /\ t.Availability[ts[1] + 1][ts[2] + 1]}

CombinedDemand ==
    SumOver([c \in data.classes |-> c.PeriodsPerWeek], data.classes)

\* C15: with one teacher, one room and two classes, a solve that the backend
\* completes ends INFEASIBLE when the classes' combined PeriodsPerWeek
\* exceeds the number of slots at which the teacher is available, and Solved
\* otherwise.
C15_TwoClassesOneTeacher ==
    (Scenario15 /\ SolveEnded /\ ~BackendFailed) =>
        \A t \in data.teachers :
            IF CombinedDemand > Cardinality(AvailableSlots(t))
            THEN status = "INFEASIBLE"
            ELSE Solved

\* the gaps analyze_gaps counts, summed over all teachers
GapsCounted(sch) ==
    SumOver(analyze_gaps(sch, data.teachers), {t.Name : t \in data.teachers})

\* C16: for a Solved attempt whose schedule is returned, the gaps counted by
\* analyze_gaps over all teachers and days equal the value of total_gaps in
\* that solve.
C16_GapCountIsObjective ==
    (Returned /\ Solved) =>
        \A sch \in result :
            analyze_gaps_raises(sch, data.teachers) = "none"
                => GapsCounted(sch) = gapObjective

\* C18: run_scheduler never ends with an exception reaching its caller:
\* whenever a step has raised or the solve has failed, it has returned None.
C18_NoExceptionPropagates ==
    /\ pc # "propagated"
    /\ (Returned /\ (raised # "none" \/ status \in FailureStatuses)) => result = {}

C18_Witness ==
    /\ Returned
    /\ Solved
    /\ raised \in ExceptionClasses
    /\ result = {}

\* C20: in the solution of a Solved attempt every assignment gives a class
\* to a teacher whose Subjects contain the class's Subject.
C20_SubjectsMatch ==
    Solved => \A k \in SolutionKeys :
                ClassById(data, k[2]).Subject \in TeacherById(data, k[1]).Subjects

(***************************************************************************)
(* Solve page (src/src/pages/solve.py). show() runs on the page's main     *)
(* thread; every click on "Generate Schedule" makes run_with_timeout start *)
(* a worker thread that runs run_scheduler on st.session_state.scheduler,  *)
(* the one Scheduler of the session. The variables pc .. result are the    *)
(* locals of the worker that takes the next step; the locals of the other  *)
(* workers are parked, and switch_thread hands the processor over.         *)
(***************************************************************************)

\* weights = {"gaps": st.slider(...)} (lines 39-41)
PageWeights == {"gaps"}

\* the locals of the running worker
Current ==
    [thread |-> thread, pc |-> pc, weights |-> weights, status |-> status,
     solveRet |-> solveRet, raised |-> raised, result |-> result]

\* thread.is_alive(): run_scheduler has neither returned nor raised
Alive(c) == c.pc \notin {"idle", "propagated"}

\* the read of freed memory in combined_objective has ended the process
ProcessCrashed == pc = "crashed"

\* the locals of worker n
Worker(n) == IF thread = n THEN Current ELSE CHOOSE c \in parked : c.thread = n

\* the Scheduler was initialised on the Data Input page; the session holds
\* no schedule yet
PageDataSets ==
    {d \in DataSets :
        /\ Cardinality(d.teachers) = 1
        /\ Cardinality(d.classes) = 1
        /\ \A t \in d.teachers : \A ts \in InGrid(d.time_slots) :
                t.Availability[ts[1] + 1][ts[2] + 1]}

InitPage == Init /\ data \in PageDataSets

\* the button is pressed: show() calls run_with_timeout, which starts a
\* worker (thread.start(), line 24) and waits in thread.join(timeout)
page_generate ==
    /\ pagePc = "ready"
    /\ ~ProcessCrashed
    /\ attempts < MaxAttempts
    /\ parked' = {c \in parked \cup (IF thread # 0 THEN {Current} ELSE {}) : Alive(c)}
    /\ thread' = attempts + 1
    /\ attempts' = attempts + 1
    /\ weights' = PageWeights
    /\ status' = "NONE"
    /\ solveRet' = FALSE
    /\ logged' = <<"none", "">>
    /\ raised' = "none"
    /\ result' = {}
    /\ pc' = "create_variables"
    /\ gs_raised' = "not_called"
    /\ pagePc' = "joining"
    /\ pageOutcome' = "none"
    /\ page_schedule' = {}
    /\ UNCHANGED <<data, x, gen, numVariables, solverCons, numConstraints,
                   objective, solution, everSolved, gapObjective,
                   session_schedule, session_solve_time>>

\* another live worker gets the processor; a worker that has ended is kept
\* only while run_with_timeout may still read its result
switch_thread ==
    /\ ~ProcessCrashed
    /\ \E c \in parked :
        /\ Alive(c)
        /\ parked' = (parked \ {c}) \cup
                (IF thread # 0 /\ (Alive(Current) \/ thread = attempts)
                 THEN {Current} ELSE {})
        /\ thread' = c.thread
        /\ pc' = c.pc
        /\ weights' = c.weights
        /\ status' = c.status
        /\ solveRet' = c.solveRet
        /\ raised' = c.raised
        /\ result' = c.result
    /\ UNCHANGED <<data, x, gen, numVariables, solverCons, numConstraints,
                   objective, solution, logged, attempts, everSolved,
                   gapObjective, gs_raised, pagePc, pageOutcome, page_schedule,
                   session_schedule, session_solve_time>>

\* join_returns without the test of line 58: show() stores whatever
\* run_with_timeout returned, None included, and the time it took
join_stores_any_result ==
    /\ pagePc = "joining"
    /\ ~ProcessCrashed
    /\ ~Alive(Worker(attempts))
    /\ page_schedule' = Worker(attempts).result
    /\ pageOutcome' = "returned"
    /\ session_schedule' = Worker(attempts).result
    /\ session_solve_time' = "measured"
    /\ pagePc' = "ready"
    /\ UNCHANGED <<schedVars, parked, thread>>

\* thread.join(timeout) returns with the worker ended: run_with_timeout
\* returns result[0] (line 28) and show() stores a schedule that is not None
\* (lines 58-64)
join_returns ==
    /\ pagePc = "joining"
    /\ ~ProcessCrashed
    /\ ~Alive(Worker(attempts))
    /\ page_schedule' = Worker(attempts).result
    /\ pageOutcome' = "returned"
    /\ session_schedule' = IF Worker(attempts).result # {}
                           THEN Worker(attempts).result
                           ELSE session_schedule
    /\ session_solve_time' = IF Worker(attempts).result # {}
                             THEN "measured"
                             ELSE session_solve_time
    /\ pagePc' = "ready"
    /\ UNCHANGED <<schedVars, parked, thread>>

\* thread.join() with no timeout: it does not return while the worker is alive
join_without_timeout ==
    /\ pagePc = "joining"
    /\ FALSE
    /\ UNCHANGED vars

\* thread.join(timeout) returns at the deadline with the worker still alive:
\* run_with_timeout raises TimeoutException (lines 26-27), show() reports it
\* and returns (lines 51-53); the worker keeps running
join_times_out ==
    /\ pagePc = "joining"
    /\ ~ProcessCrashed
    /\ Alive(Worker(attempts))
    /\ pageOutcome' = "TimeoutException"
    /\ pagePc' = "ready"
    /\ UNCHANGED <<schedVars, parked, thread, page_schedule, session_schedule,
                   session_solve_time>>

\* thread.join(timeout) of line 25
join == join_returns \/ join_times_out

NextPage ==
    \/ page_generate /\ UNCHANGED <<gapVars, parseVars>>
    \/ switch_thread /\ UNCHANGED <<gapVars, parseVars>>
    \/ join_returns /\ UNCHANGED <<gapVars, parseVars>>
    \/ join_times_out /\ UNCHANGED <<gapVars, parseVars>>
    \/ create_variables /\ UNCHANGED <<gapVars, pageVars, parseVars>>
    \/ apply_constraints /\ UNCHANGED <<gapVars, pageVars, parseVars>>
    \/ set_objective /\ UNCHANGED <<gapVars, pageVars, parseVars>>
    \/ set_objective_crash /\ UNCHANGED <<gapVars, pageVars, parseVars>>

\* the workers may stop for ever at any step; join(timeout) is a timed wait
\* and returns once the worker has ended or the timeout has passed
SpecPage == InitPage /\ [][NextPage]_vars /\ WF_vars(join /\ UNCHANGED <<gapVars, parseVars>>)

\* C12: run_with_timeout always returns control to its caller: it returns
\* the worker's result when the worker has ended, and raises
\* TimeoutException when the worker is still running, whether or not the
\* worker ever ends (short of the whole process ending).
C12_ReturnsByDeadline ==
    /\ (pagePc = "joining") ~> (pagePc = "ready" \/ ProcessCrashed)
    /\ [][(pagePc = "joining" /\ pagePc' = "ready") =>
            IF Alive(Worker(attempts))
            THEN pageOutcome' = "TimeoutException"
            ELSE pageOutcome' = "returned" /\ page_schedule' = Worker(attempts).result]_vars

C12_Witness ==
    /\ pagePc = "ready"
    /\ pageOutcome = "TimeoutException"
    /\ attempts > 0
    /\ Alive(Worker(attempts))

\* C13: once a later Generate Schedule run exists, a step of an earlier,
\* abandoned worker changes nothing of the variable map, the solver's model
\* or the solution that the later run works on.
C13_AbandonedWorkerIsolated ==
    [][(thread # 0 /\ thread < attempts /\ thread' = thread) =>
            UNCHANGED <<x, gen, numVariables, solverCons, numConstraints,
                        solution>>]_vars

(***************************************************************************)
(* Scheduler.get_schedule as a function of the stored solution: the keys   *)
(* of self.solution are drawn from ids that the loaded collections hold    *)
(* and ids that they do not, and the projection runs once inside           *)
(* run_scheduler (line 27) and once called by the caller itself.           *)
(***************************************************************************)
ProjectData ==
    [teachers |-> {Teacher("T1", "Ann", {"Math"}, {})},
     classes |-> {Class("C1", "Math", 1, 1)},
     rooms |-> {Room("R1", 1)},
     time_slots |-> {<<0, 0>>, <<0, 1>>}]

StoredKeys ==
    {"T1", "T9"} \X {"C1", "C9"} \X {"R1", "R9"} \X ProjectData.time_slots

StoredSolutions == {s \in SUBSET StoredKeys : Cardinality(s) \in 1..MaxStored}

\* run_scheduler stands at line 27, after a solve that returned True
InitProject ==
    /\ data = ProjectData
    /\ x = <<>>
    /\ gen = 0
    /\ numVariables = 0
    /\ solverCons = {}
    /\ numConstraints = 0
    /\ objective = "set"
    /\ solution \in {{s} : s \in StoredSolutions}
    /\ status = "OPTIMAL"
    /\ solveRet = TRUE
    /\ logged = solve_logs("OPTIMAL")
    /\ weights = {"gaps", "workload", "distribution"}
    /\ pc = "get_schedule"
    /\ raised = "none"
    /\ result = {}
    /\ attempts = 1
    /\ everSolved = TRUE
    /\ gapObjective = 0
    /\ gs_raised = "not_called"
    /\ parked = {}
    /\ thread = 0
    /\ pagePc = "ready"
    /\ pageOutcome = "none"
    /\ page_schedule = {}
    /\ session_schedule = {}
    /\ session_solve_time = "unset"
    /\ avail_input = {}
    /\ avail_grid = {}
    /\ teaching_periods = [p \in 0..(GapPeriods - 1) |-> 0]
    /\ gap_p = 0
    /\ gap_values = <<>>

NextProject ==
    \/ return_schedule /\ UNCHANGED <<gapVars, pageVars, parseVars>>
    \/ call_get_schedule /\ UNCHANGED <<gapVars, pageVars, parseVars>>

SpecProject == InitProject /\ [][NextProject]_vars

\* the stored solution holds a key with an id of no loaded entity
HasUnknownId == \E k \in SolutionKeys : ~KnownIds(data, k)

KeyCount ==
    Cardinality(data.teachers) * Cardinality(data.classes)
        * Cardinality(data.rooms) * Cardinality(data.time_slots)

\* C21: whenever an attempt hands its model to the solver, the solver holds
\* the variables and constraints of that attempt's build alone: as many
\* variables as there are keys, and no constraint over a variable of an
\* earlier build.
C21_FreshModelPerAttempt ==
    pc = "solve" =>
        /\ numVariables = KeyCount
        /\ \A con \in solverCons : \A v \in DOMAIN con.coef : v.gen = gen

\* C22: once create_variables has run, Scheduler.x has a variable of its
\* own for every (teacher ID, class ID, room ID, time slot) tuple of the
\* loaded collections and no other key, |teachers| x |classes| x |rooms| x
\* |time_slots| in all.
C22_OneVariablePerKey ==
    gen >= 1 =>
        /\ \A t \in data.teachers : \A c \in data.classes :
             \A r \in data.rooms : \A ts \in data.time_slots :
                <<t.ID, c.ID, r.ID, ts>> \in DOMAIN x
        /\ \A k \in DOMAIN x :
            /\ k[1] \in {t.ID : t \in data.teachers}
            /\ k[2] \in {c.ID : c \in data.classes}
            /\ k[3] \in {r.ID : r \in data.rooms}
            /\ k[4] \in data.time_slots
            /\ x[k].key = k
        /\ \A k1 \in DOMAIN x : \A k2 \in DOMAIN x : x[k1] = x[k2] => k1 = k2
        /\ Cardinality(DOMAIN x) = KeyCount

C22_Witness ==
    /\ gen = 2
    /\ pc = "apply_constraints"
    /\ Cardinality(data.teachers) = 2
    /\ Cardinality(data.classes) = 2
    /\ Cardinality(DOMAIN x) = 8

(***************************************************************************)
(* SpecBuild: apply_all_constraints over a variable map that lacks keys.   *)
(* The map is drawn with up to MaxMissing of the keys of the loaded data   *)
(* absent, at the point where Scheduler.apply_constraints is about to run. *)
(***************************************************************************)
PartialMaps(d) ==
    {[k \in Keys(d) \ M |-> Var(1, k)] :
        M \in {S \in SUBSET Keys(d) : Cardinality(S) <= MaxMissing}}

InitBuild ==
    /\ data \in DataSets
    /\ x \in PartialMaps(data)
    /\ gen = 1
    /\ numVariables = Cardinality(DOMAIN x)
    /\ solverCons = {}
    /\ numConstraints = 0
    /\ objective = "none"
    /\ solution = {}
    /\ status = "NONE"
    /\ solveRet = FALSE
    /\ logged = <<"none", "">>
    /\ weights \in WeightMaps
    /\ pc = "apply_constraints"
    /\ raised = "none"
    /\ result = {}
    /\ attempts = 1
    /\ everSolved = FALSE
    /\ gapObjective = 0
    /\ gs_raised = "not_called"
    /\ parked = {}
    /\ thread = 0
    /\ pagePc = "ready"
    /\ pageOutcome = "none"
    /\ page_schedule = {}
    /\ session_schedule = {}
    /\ session_solve_time = "unset"
    /\ avail_input = {}
    /\ avail_grid = {}
    /\ teaching_periods = [p \in 0..(GapPeriods - 1) |-> 0]
    /\ gap_p = 0
    /\ gap_values = <<>>

NextBuild == apply_constraints /\ UNCHANGED <<gapVars, pageVars, parseVars>>

SpecBuild == InitBuild /\ [][NextBuild]_vars

\* C23: when the variable map lacks a key of the loaded data, the
\* construction of the constraints completes without an exception.
C23_MissingKeyTolerated ==
    (/\ pc # "apply_constraints"
     /\ MissingKeys(x, data.teachers, data.classes, data.rooms,
                    data.time_slots) # {})
        => (raised = "none" /\ pc = "set_objective")

(***************************************************************************)
(* SpecParse: data_loader.parse_availability as a function of its input.   *)
(* The availability string is a sequence of characters; a cell that holds  *)
(* no string (an empty spreadsheet cell) is the input {}.                  *)
(***************************************************************************)
AvailabilityChars == {"1", "0", ",", ";"}

AvailabilityStrings ==
    UNION {[1..n -> AvailabilityChars] : n \in 0..MaxInputLen}

\* str.split(sep): the pieces between the separators, at least one piece
RECURSIVE split(_, _)
split(s, sep) ==
    IF \A i \in 1..Len(s) : s[i] # sep
    THEN <<s>>
    ELSE LET i == CHOOSE i \in 1..Len(s) :
                    s[i] = sep /\ \A j \in 1..(i - 1) : s[j] # sep
         IN  <<SubSeq(s, 1, i - 1)>> \o split(SubSeq(s, i + 1, Len(s)), sep)

\* [False] * n, the empty list for n <= 0
Falses(n) == [i \in 1..n |-> FALSE]

\* lines 175-189: split on ";" and ",", compare each piece with "1", pad
\* short rows and missing days with False; the all-False grid when the
\* input has no split
parse_availability(s, num_days, num_periods) ==
    IF s = {}
    THEN [d \in 1..num_days |-> Falses(num_periods)]
    ELSE LET days == split(CHOOSE str \in s : TRUE, ";")
             row(day) ==
                 LET periods == split(day, ",")
                     day_availability ==
                         [i \in 1..Len(periods) |-> periods[i] = <<"1">>]
                 IN  day_availability
                         \o Falses(num_periods - Len(day_availability))
             availability == [i \in 1..Len(days) |-> row(days[i])]
         IN  availability
                \o [i \in 1..(num_days - Len(availability)) |->
                        Falses(num_periods)]

InitParse ==
    /\ data = CHOOSE d \in DataSets : TRUE
    /\ x = <<>>
    /\ gen = 0
    /\ numVariables = 0
    /\ solverCons = {}
    /\ numConstraints = 0
    /\ objective = "none"
    /\ solution = {}
    /\ status = "NONE"
    /\ solveRet = FALSE
    /\ logged = <<"none", "">>
    /\ weights = {}
    /\ pc = "idle"
    /\ raised = "none"
    /\ result = {}
    /\ attempts = 0
    /\ everSolved = FALSE
    /\ gapObjective = 0
    /\ gs_raised = "not_called"
    /\ parked = {}
    /\ thread = 0
    /\ pagePc = "ready"
    /\ pageOutcome = "none"
    /\ page_schedule = {}
    /\ session_schedule = {}
    /\ session_solve_time = "unset"
    /\ avail_input \in [availability_str :
                            {{}} \cup {{str} : str \in AvailabilityStrings},
                        num_days : 1..MaxParseDays,
                        num_periods : 1..MaxParsePeriods]
    /\ avail_grid = {}
    /\ teaching_periods = [p \in 0..(GapPeriods - 1) |-> 0]
    /\ gap_p = 0
    /\ gap_values = <<>>

\* one call parse_availability(availability_str, num_days, num_periods)
parse ==
    /\ avail_grid = {}
    /\ avail_grid' = {parse_availability(avail_input.availability_str,
                                         avail_input.num_days,
                                         avail_input.num_periods)}
    /\ UNCHANGED avail_input

NextParse == parse /\ UNCHANGED <<schedVars, gapVars, pageVars>>

SpecParse == InitParse /\ [][NextParse]_vars

\* C24: for an input string the returned grid has exactly num_days rows of
\* exactly num_periods cells each, and a cell is true only where the input
\* gives "1" at that day and period.
C24_GridIsRectangular ==
    (avail_grid # {} /\ avail_input.availability_str # {}) =>
        LET grid == CHOOSE g \in avail_grid : TRUE
            days == split(CHOOSE str \in avail_input.availability_str : TRUE,
                          ";")
        IN  /\ Len(grid) = avail_input.num_days
            /\ \A d \in 1..Len(grid) :
                /\ Len(grid[d]) = avail_input.num_periods
                /\ \A p \in 1..Len(grid[d]) :
                    grid[d][p] =>
                        /\ d <= Len(days)
                        /\ p <= Len(split(days[d], ","))
                        /\ split(days[d], ",")[p] = <<"1">>

(***************************************************************************)
(* Properties of the projected schedule and of the stored solution.        *)
(***************************************************************************)

\* C25: whatever days and periods the time slots have, the get_schedule of
\* an attempt that ended Solved with a non-empty solution does not fail and
\* lists every solution entry under the day of its slot.
C25_AnySlotSetProjected ==
    (Returned /\ Solved /\ SolutionKeys # {}) =>
        /\ raised = "none"
        /\ result # {}
        /\ LET schedule == CHOOSE sch \in result : TRUE
           IN  \A k \in SolutionKeys :
                /\ k[4][1] \in DOMAIN schedule
                /\ \E e \in DOMAIN schedule[k[4][1]] :
                        e.period = k[4][2] /\ e.room = k[3]

\* the entry the schedule is to hold for solution key (t, c, r, (d, p))
ExpectedEntry(k) ==
    [period |-> k[4][2],
     teacher |-> (CHOOSE t \in data.teachers : t.ID = k[1]).Name,
     class |-> (CHOOSE c \in data.classes : c.ID = k[2]).Subject,
     room |-> k[3]]

\* C26: a returned schedule holds one entry per key of the stored solution
\* and nothing else: the list of day d holds {period p, Name of t, Subject
\* of c, r} once for each key (t, c, r, (d, p)), and only such entries.
C26_OneEntryPerKey ==
    (Returned /\ result # {}) =>
        LET schedule == CHOOSE sch \in result : TRUE
        IN  /\ \A k \in SolutionKeys :
                /\ k[4][1] \in DOMAIN schedule
                /\ ExpectedEntry(k) \in DOMAIN schedule[k[4][1]]
            /\ \A day \in DOMAIN schedule : \A e \in DOMAIN schedule[day] :
                schedule[day][e] =
                    Cardinality({k \in SolutionKeys :
                                    k[4][1] = day /\ ExpectedEntry(k) = e})

C26_Witness ==
    /\ Returned
    /\ result # {}
    /\ Cardinality(SolutionKeys) >= 3
    /\ \E k1 \in SolutionKeys : \E k2 \in SolutionKeys :
            k1[1] # k2[1] /\ k1[2] # k2[2]

\* C27: self.solution changes only in a solve that ends OPTIMAL or FEASIBLE;
\* every other step, a solve with another status or with an exception
\* included, leaves it as it was, so after a failed re-solve get_schedule
\* still projects the solution of the earlier attempt.
C27_SolutionKeptOnFailure ==
    [][solution' # solution => (pc = "solve" /\ status' \in SolvedStatuses)]_vars

C27_Witness ==
    /\ Returned
    /\ attempts = 2
    /\ everSolved
    /\ status \in FailureStatuses
    /\ solution # {}
    /\ gs_raised = "none"

\* C28: in the solution of a Solved attempt no room hosts two different
\* classes at one time slot.
C28_OneClassPerRoomAndSlot ==
    Solved =>
        \A k1 \in SolutionKeys : \A k2 \in SolutionKeys :
            (k1[3] = k2[3] /\ k1[4] = k2[4]) => k1[2] = k2[2]

\* C29: in the solution of a Solved attempt no class is assigned twice at
\* one time slot, by two teachers or in two rooms, so each class occupies
\* PeriodsPerWeek distinct slots.
C29_ClassOncePerSlot ==
    Solved =>
        /\ \A k1 \in SolutionKeys : \A k2 \in SolutionKeys :
                (k1[2] = k2[2] /\ k1[4] = k2[4]) => k1 = k2
        /\ \A c \in data.classes :
                Cardinality({k[4] : k \in AssignmentsOfClass(c)})
                    = c.PeriodsPerWeek

(***************************************************************************)
(* The session state kept by the Solve page.                               *)
(***************************************************************************)

====
